---- MODULE Spec2Model ----
(***************************************************************************)
(* Model of muppet's configuration core (src/src/config.rs):               *)
(*   - parse_sdc_nics: the sdc:nics JSON text -> set of IP addresses       *)
(*   - Config::from_file, Config::add_untrusted_ips, get_untrusted_ips     *)
(*                                                                         *)
(* Text is modelled as a sequence of tokens.  A token is either the        *)
(* separator '/' (Slash) or a positive number standing for the complete    *)
(* literal of one IP address (token 3 is the text of address 3).  A piece  *)
(* of text parses as an IpAddr iff it is exactly one address token: the    *)
(* empty text, two literals run together and anything holding a '/' do     *)
(* not parse.                                                              *)
(*                                                                         *)
(* Option<T> is the record [some, val]; Result<T, E> is [ok, val].         *)
(***************************************************************************)
EXTENDS Integers, Sequences, FiniteSets, TLC

\* ------------------------------------------------------------------ bounds
\* addresses known to the model are 1..NumAddr
NumAddr == 5
\* largest adminIPs / mantaIPs / untrustedIPs set written in a config file
MaxSetSize == 1
\* add_untrusted_ips calls made on one Config
MaxCalls == 2
\* parser inputs: address literals used, records per text, tokens per
\* `ips` entry, `ips` entries per text
MaxNicAddr == 2
MaxRecords == 2
MaxEntryLen == 3
MaxEntries == 2

\* the '/' of split('/')
Slash == 0

Addr == 1..NumAddr

\* ------------------------------------------------------------ Option/Result
NoneSet == [some |-> FALSE, val |-> {}]
SomeSet(s) == [some |-> TRUE, val |-> s]
NoneText == [some |-> FALSE, val |-> <<>>]
SomeText(t) == [some |-> TRUE, val |-> t]
OkSet(s) == [ok |-> TRUE, val |-> s]
ErrSet == [ok |-> FALSE, val |-> {}]

\* ------------------------------------------------------------------ parser
\* str::split('/'): the pieces between the separators, at least one piece
RECURSIVE split(_)
split(s) ==
    IF s = <<>> THEN << <<>> >>
    ELSE LET rest == split(Tail(s)) IN
         IF Head(s) = Slash THEN << <<>> >> \o rest
         ELSE << (<<Head(s)>> \o Head(rest)) >> \o Tail(rest)

\* str::parse::<IpAddr>(): Some(address) for exactly one address literal
parse_IpAddr(t) ==
    IF Len(t) = 1 /\ t[1] \in Addr THEN [ok |-> TRUE, val |-> t[1]]
    ELSE [ok |-> FALSE, val |-> 0]

\* serde_json::from_str::<Vec<SdcNic>>: the text must be a JSON list of
\* objects, and a present `ip` must be an address literal (ip: Option<IpAddr>)
from_str(nics_json) ==
    IF nics_json.json_list
       /\ \A i \in 1..Len(nics_json.nics) :
             nics_json.nics[i].ip.some => parse_IpAddr(nics_json.nics[i].ip.val).ok
    THEN [ok |-> TRUE,
          val |-> [i \in 1..Len(nics_json.nics) |->
                     [ips |-> nics_json.nics[i].ips,
                      ip |-> IF nics_json.nics[i].ip.some
                             THEN [some |-> TRUE,
                                   val |-> parse_IpAddr(nics_json.nics[i].ip.val).val]
                             ELSE [some |-> FALSE, val |-> 0]]]]
    ELSE [ok |-> FALSE, val |-> <<>>]

\* the inner loop `for ip_str in ips`: push the host part of every entry
\* that parses, skip the others
RECURSIVE push_ips(_, _)
push_ips(sdc_ips, ips) ==
    IF ips = {} THEN sdc_ips
    ELSE LET ip_str == CHOOSE e \in ips : TRUE
             v == split(ip_str)
             p == parse_IpAddr(v[1])
         IN push_ips(IF p.ok THEN Append(sdc_ips, p.val) ELSE sdc_ips,
                     ips \ {ip_str})

\* variant: the legacy `ip` field wins when both fields are present
push_nic_prefers_ip(sdc_ips, nic) ==
    IF nic.ip.some THEN Append(sdc_ips, nic.ip.val)
    ELSE IF nic.ips.some THEN push_ips(sdc_ips, nic.ips.val)
    ELSE sdc_ips

\* one iteration of `for nic in sdc_nics`: the match on the record's shape
push_nic(sdc_ips, nic) ==
    IF ~nic.ips.some /\ nic.ip.some THEN Append(sdc_ips, nic.ip.val)
    ELSE IF nic.ips.some THEN push_ips(sdc_ips, nic.ips.val)
    ELSE sdc_ips

RECURSIVE push_nics(_, _)
push_nics(sdc_ips, sdc_nics) ==
    IF sdc_nics = <<>> THEN sdc_ips
    ELSE push_nics(push_nic(sdc_ips, Head(sdc_nics)), Tail(sdc_nics))

\* sdc_ips.into_iter().collect::<HashSet<IpAddr>>()
collect(v) == {v[i] : i \in 1..Len(v)}

\* variant: an `ips` entry that does not parse fails the whole call
parse_sdc_nics_strict(nics_json) ==
    LET sdc_nics == from_str(nics_json) IN
    IF ~sdc_nics.ok THEN ErrSet
    ELSE IF \E i \in 1..Len(sdc_nics.val) :
               /\ sdc_nics.val[i].ips.some
               /\ \E e \in sdc_nics.val[i].ips.val : ~parse_IpAddr(split(e)[1]).ok
         THEN ErrSet
    ELSE OkSet(collect(push_nics(<<>>, sdc_nics.val)))

parse_sdc_nics(nics_json) ==
    LET sdc_nics == from_str(nics_json) IN
    IF ~sdc_nics.ok THEN ErrSet
    ELSE OkSet(collect(push_nics(<<>>, sdc_nics.val)))

\* ------------------------------------------------------------------ Config
\* variants of add_untrusted_ips, each with one slip
\* ... the trusted address is not removed
add_untrusted_ips_keeps_trusted(self, nics_json) ==
    LET parsed == parse_sdc_nics(nics_json)
        s1 == IF self.mantaIPs.some THEN parsed.val \ self.mantaIPs.val ELSE parsed.val
        s2 == IF self.adminIPs.some THEN s1 \ self.adminIPs.val ELSE s1
    IN IF ~parsed.ok THEN [ok |-> FALSE, self |-> self]
       ELSE [ok |-> TRUE,
             self |-> [self EXCEPT !.untrustedIPs =
                          IF s2 = {} THEN NoneSet ELSE SomeSet(s2)]]

\* ... the admin addresses are not subtracted
add_untrusted_ips_keeps_admin(self, nics_json) ==
    LET parsed == parse_sdc_nics(nics_json)
        s1 == IF self.mantaIPs.some THEN parsed.val \ self.mantaIPs.val ELSE parsed.val
        s3 == s1 \ {self.trustedIP}
    IN IF ~parsed.ok THEN [ok |-> FALSE, self |-> self]
       ELSE [ok |-> TRUE,
             self |-> [self EXCEPT !.untrustedIPs =
                          IF s3 = {} THEN NoneSet ELSE SomeSet(s3)]]

\* ... an empty result is stored as Some(empty set)
add_untrusted_ips_stores_empty(self, nics_json) ==
    LET parsed == parse_sdc_nics(nics_json)
        s1 == IF self.mantaIPs.some THEN parsed.val \ self.mantaIPs.val ELSE parsed.val
        s2 == IF self.adminIPs.some THEN s1 \ self.adminIPs.val ELSE s1
        s3 == s2 \ {self.trustedIP}
    IN IF ~parsed.ok THEN [ok |-> FALSE, self |-> self]
       ELSE [ok |-> TRUE, self |-> [self EXCEPT !.untrustedIPs = SomeSet(s3)]]

\* ... the field is written before the parse error is returned
add_untrusted_ips_writes_on_error(self, nics_json) ==
    LET parsed == parse_sdc_nics(nics_json)
        s1 == IF self.mantaIPs.some THEN parsed.val \ self.mantaIPs.val ELSE parsed.val
        s2 == IF self.adminIPs.some THEN s1 \ self.adminIPs.val ELSE s1
        s3 == s2 \ {self.trustedIP}
    IN [ok |-> parsed.ok,
        self |-> [self EXCEPT !.untrustedIPs =
                     IF s3 = {} THEN NoneSet ELSE SomeSet(s3)]]

\* ... a non-empty untrustedIPs is left as it is
add_untrusted_ips_guarded(self, nics_json) ==
    LET parsed == parse_sdc_nics(nics_json)
        s1 == IF self.mantaIPs.some THEN parsed.val \ self.mantaIPs.val ELSE parsed.val
        s2 == IF self.adminIPs.some THEN s1 \ self.adminIPs.val ELSE s1
        s3 == s2 \ {self.trustedIP}
    IN IF ~parsed.ok THEN [ok |-> FALSE, self |-> self]
       ELSE IF self.untrustedIPs.some /\ self.untrustedIPs.val # {}
            THEN [ok |-> TRUE, self |-> self]
       ELSE [ok |-> TRUE,
             self |-> [self EXCEPT !.untrustedIPs =
                          IF s3 = {} THEN NoneSet ELSE SomeSet(s3)]]

\* ... the admin set is moved out of the Config instead of borrowed
add_untrusted_ips_takes_admin(self, nics_json) ==
    LET parsed == parse_sdc_nics(nics_json)
        s1 == IF self.mantaIPs.some THEN parsed.val \ self.mantaIPs.val ELSE parsed.val
        s2 == IF self.adminIPs.some THEN s1 \ self.adminIPs.val ELSE s1
        s3 == s2 \ {self.trustedIP}
    IN IF ~parsed.ok THEN [ok |-> FALSE, self |-> self]
       ELSE [ok |-> TRUE,
             self |-> [self EXCEPT !.adminIPs = NoneSet,
                                   !.untrustedIPs =
                                       IF s3 = {} THEN NoneSet ELSE SomeSet(s3)]]

\* Config::add_untrusted_ips: [ok, self], self being the Config after the call
add_untrusted_ips(self, nics_json) ==
    LET parsed == parse_sdc_nics(nics_json)
        s1 == IF self.mantaIPs.some THEN parsed.val \ self.mantaIPs.val ELSE parsed.val
        s2 == IF self.adminIPs.some THEN s1 \ self.adminIPs.val ELSE s1
        s3 == s2 \ {self.trustedIP}
    IN IF ~parsed.ok THEN [ok |-> FALSE, self |-> self]
       ELSE [ok |-> TRUE,
             self |-> [self EXCEPT !.untrustedIPs =
                          IF s3 = {} THEN NoneSet ELSE SomeSet(s3)]]

get_untrusted_ips(self) == self.untrustedIPs

from_file(file) ==
    IF ~file.readable \/ ~file.decodable
    THEN [ok |-> FALSE, val |-> file.doc]
    ELSE [ok |-> TRUE, val |-> file.doc]

\* ------------------------------------------------------------------ inputs
SmallSets == {s \in SUBSET Addr : Cardinality(s) <= MaxSetSize}
OptSets == {NoneSet} \cup {SomeSet(s) : s \in SmallSets}

ZkConfig == [servers |-> << [host |-> "zkhost", port |-> 9000] >>, timeout |-> 1000]

Docs == [name : {"test"}, trustedIP : Addr, adminIPs : OptSets, mantaIPs : OptSets,
         untrustedIPs : OptSets, zookeeper : {ZkConfig}]

\* a file that cannot be opened or does not decode makes from_file fail
ConfigFiles == [readable : BOOLEAN, decodable : BOOLEAN, doc : Docs]

NoNic == [ips |-> NoneSet, ip |-> NoneText]

\* the sdc:nics text of a host whose interfaces carry the addresses s: the
\* smallest address on a legacy record, the others on a record with `ips`
\* entries "addr/prefix", and an interface with no address
Min(s) == CHOOSE a \in s : \A b \in s : a <= b
TextOf(s) ==
    [json_list |-> TRUE,
     nics |-> IF s = {} THEN << NoNic >>
              ELSE << [ips |-> SomeSet({<<a, Slash, 2, 4>> : a \in s \ {Min(s)}}),
                       ip |-> NoneText],
                      [ips |-> NoneSet, ip |-> SomeText(<<Min(s)>>)],
                      NoNic >>]

\* not JSON at all, and a list with a record whose `ip` is not an address
GarbageText == [json_list |-> FALSE, nics |-> <<>>]
BadIpText == [json_list |-> TRUE,
              nics |-> TextOf(Addr).nics \o << [ips |-> NoneSet, ip |-> SomeText(<<>>)] >>]

InventoryTexts == {TextOf(s) : s \in SUBSET Addr} \cup {GarbageText, BadIpText}

\* inputs of the parser called on its own
NicAddr == 1..MaxNicAddr
Tokens == NicAddr \cup {Slash}
Entries == UNION {[1..k -> Tokens] : k \in 0..MaxEntryLen}

\* the sets of exactly k entries
RECURSIVE EntrySets(_)
EntrySets(k) ==
    IF k = 0 THEN {{}}
    ELSE UNION {{s \cup {e} : e \in Entries \ s} : s \in EntrySets(k - 1)}

IpFields == {NoneText, SomeText(<<>>)} \cup {SomeText(<<a>>) : a \in NicAddr}
IpsFields(k) ==
    IF k = 0 THEN {NoneSet, SomeSet({})} ELSE {SomeSet(s) : s \in EntrySets(k)}
NicsWith(k) == [ips : IpsFields(k), ip : IpFields]

\* the lists of n records that hold at most b `ips` entries together
RECURSIVE NicLists(_, _)
NicLists(n, b) ==
    IF n = 0 THEN {<<>>}
    ELSE UNION {{<<nic>> \o l : nic \in NicsWith(k), l \in NicLists(n - 1, b - k)} :
                  k \in 0..b}

\* tabulated once: the records with exactly k entries, and the lists of
\* fewer than MaxRecords records with at most b entries
NicsByCount == [k \in 0..MaxEntries |-> NicsWith(k)]
TailsByBudget ==
    [b \in 0..MaxEntries |-> UNION {NicLists(n, b) : n \in 0..(MaxRecords - 1)}]

\* ------------------------------------------------------------------- state
\* config      the Config value
\* pre_config  the Config as it was when the last call started
\* nics_json   the text given to the last call
\* parsed      what the last direct call of parse_sdc_nics returned
\* result      "Ok" or "Err" as the last call returned, "none" before any call
\* calls       calls made so far
VARIABLES phase, config, pre_config, nics_json, parsed, result, calls
vars == <<phase, config, pre_config, nics_json, parsed, result, calls>>

\* the Config as Config::from_file returns it
Init ==
    \E file \in ConfigFiles :
        /\ from_file(file).ok
        /\ config = from_file(file).val
        /\ pre_config = config
        /\ phase = "Loaded"
        /\ nics_json = GarbageText
        /\ parsed = ErrSet
        /\ result = "none"
        /\ calls = 0

\* config.add_untrusted_ips(&text)
Classify ==
    /\ phase \in {"Loaded", "Classified"}
    /\ calls < MaxCalls
    /\ \E text \in InventoryTexts :
          \E r \in {add_untrusted_ips(config, text)} :
          /\ nics_json' = text
          /\ pre_config' = config
          /\ config' = r.self
          /\ result' = IF r.ok THEN "Ok" ELSE "Err"
          /\ phase' = IF r.ok THEN "Classified" ELSE phase
          /\ calls' = calls + 1
          /\ UNCHANGED parsed

Next == Classify

Spec == Init /\ [][Next]_vars

\* parse_sdc_nics called on its own, once, on any text
InitParse ==
    /\ phase = "Parser"
    /\ config = from_file(CHOOSE file \in ConfigFiles : from_file(file).ok).val
    /\ pre_config = config
    /\ nics_json = GarbageText
    /\ parsed = ErrSet
    /\ result = "none"
    /\ calls = 0

ParseCall(text) ==
    \E r \in {parse_sdc_nics(text)} :
        /\ nics_json' = text
        /\ parsed' = r
        /\ result' = IF r.ok THEN "Ok" ELSE "Err"
        /\ calls' = calls + 1
        /\ UNCHANGED <<phase, config, pre_config>>

\* the text is not JSON, an empty list, or a first record followed by
\* further records, MaxRecords records and MaxEntries entries at most
ParseNics ==
    /\ phase = "Parser"
    /\ calls = 0
    /\ \/ \E text \in {GarbageText, [json_list |-> TRUE, nics |-> <<>>]} :
             ParseCall(text)
       \/ \E k \in 0..MaxEntries :
             \E nic \in NicsByCount[k], rest \in TailsByBudget[MaxEntries - k] :
                ParseCall([json_list |-> TRUE, nics |-> <<nic>> \o rest])

NextParse == ParseNics

SpecParse == InitParse /\ [][NextParse]_vars

\* ---------------------------------------------------------------- properties
\* the inventory handed to the last add_untrusted_ips call
Inventory == parse_sdc_nics(nics_json).val

\* inventory - service_addresses - admin_addresses - {trusted_address}, an
\* absent set subtracting nothing
Expected(cfg, inventory) ==
    {a \in inventory :
        /\ a # cfg.trustedIP
        /\ ~(cfg.adminIPs.some /\ a \in cfg.adminIPs.val)
        /\ ~(cfg.mantaIPs.some /\ a \in cfg.mantaIPs.val)}

\* the text is a list of records whose `ip`, where present, is one address
TextDecodes(text) ==
    /\ text.json_list
    /\ \A i \in 1..Len(text.nics) :
          text.nics[i].ip.some => \E a \in Addr : text.nics[i].ip.val = <<a>>

\* entry e is the literal of address a, alone or followed by a '/' suffix
Host(e, a) == Len(e) >= 1 /\ e[1] = a /\ (Len(e) = 1 \/ e[2] = Slash)

\* what one record of the text contributes
Contribution(nic) ==
    IF nic.ips.some THEN {a \in Addr : \E e \in nic.ips.val : Host(e, a)}
    ELSE IF nic.ip.some THEN {a \in Addr : nic.ip.val = <<a>>}
    ELSE {}

HasBadEntry(text) ==
    \E i \in 1..Len(text.nics) :
        /\ text.nics[i].ips.some
        /\ \E e \in text.nics[i].ips.val : ~\E a \in Addr : Host(e, a)

C2_NoOpWhenPresent ==
    (calls > 0 /\ pre_config.untrustedIPs.some /\ pre_config.untrustedIPs.val # {})
        => config.untrustedIPs = pre_config.untrustedIPs

\* C3: called on a Config with untrustedIPs absent, classify stores exactly
\* inventory - mantaIPs - adminIPs - {trustedIP} whenever that set is not empty.
C3_Difference ==
    (result = "Ok" /\ ~pre_config.untrustedIPs.some
                   /\ Expected(pre_config, Inventory) # {})
        => config.untrustedIPs = SomeSet(Expected(pre_config, Inventory))

\* the scenario of only_unconfigured_are_untrusted: trusted 1, admin {2},
\* manta {3}, inventory {1, 2, 3, 4, 5}
C3_Witness ==
    /\ result = "Ok"
    /\ pre_config.trustedIP = 1
    /\ pre_config.adminIPs = SomeSet({2})
    /\ pre_config.mantaIPs = SomeSet({3})
    /\ pre_config.untrustedIPs = NoneSet
    /\ Inventory = {1, 2, 3, 4, 5}
    /\ config.untrustedIPs = SomeSet({4, 5})

\* C4: when the set classify computes is empty, untrustedIPs is stored as
\* None; after an Ok return get_untrusted_ips is never Some(empty set).
C4_NoEmptySet ==
    result = "Ok" =>
        /\ get_untrusted_ips(config) # SomeSet({})
        /\ Expected(pre_config, Inventory) = {} => config.untrustedIPs = NoneSet

\* the file listed an empty untrusted set and every inventory address is
\* accounted for
C4_Witness ==
    /\ result = "Ok"
    /\ pre_config.untrustedIPs = SomeSet({})
    /\ Inventory # {}
    /\ Expected(pre_config, Inventory) = {}
    /\ get_untrusted_ips(config) = NoneSet

\* C5: for a text that decodes, parse_sdc_nics returns Ok with the union of
\* the records' contributions: the hosts of the `ips` entries when `ips` is
\* present (`ip` ignored), the `ip` address when only `ip` is present, nothing
\* when neither is.
C5_PerRecord ==
    (calls > 0 /\ phase = "Parser" /\ TextDecodes(nics_json)) =>
        /\ parsed.ok
        /\ parsed.val =
              UNION {Contribution(nics_json.nics[i]) : i \in 1..Len(nics_json.nics)}

\* a record with ips ["1/2"] and ip "2", then a record with neither field
C5_Witness ==
    /\ phase = "Parser"
    /\ calls > 0
    /\ nics_json.nics = << [ips |-> SomeSet({<<1, Slash, 2>>}), ip |-> SomeText(<<2>>)],
                           NoNic >>
    /\ parsed = OkSet({1})

\* C6: for a text that decodes and holds `ips` entries that do not parse,
\* parse_sdc_nics returns Ok, the result holds the address of every entry that
\* parses and of every legacy record, and nothing else.
C6_MalformedEntries ==
    (calls > 0 /\ phase = "Parser" /\ TextDecodes(nics_json) /\ HasBadEntry(nics_json)) =>
        /\ parsed.ok
        /\ \A i \in 1..Len(nics_json.nics) :
              /\ nics_json.nics[i].ips.some =>
                    \A e \in nics_json.nics[i].ips.val :
                        \A a \in Addr : Host(e, a) => a \in parsed.val
              /\ (~nics_json.nics[i].ips.some /\ nics_json.nics[i].ip.some) =>
                    \A a \in Addr : nics_json.nics[i].ip.val = <<a>> => a \in parsed.val
        /\ \A a \in parsed.val :
              \E i \in 1..Len(nics_json.nics) : a \in Contribution(nics_json.nics[i])

\* a record with ips ["1/2", "/2"], then a legacy record with ip "2"
C6_Witness ==
    /\ phase = "Parser"
    /\ calls > 0
    /\ nics_json.nics = << [ips |-> SomeSet({<<1, Slash, 2>>, <<Slash, 2>>}),
                            ip |-> NoneText],
                           [ips |-> NoneSet, ip |-> SomeText(<<2>>)] >>
    /\ parsed = OkSet({1, 2})

\* C7: when the text does not decode, parse_sdc_nics returns an error and no
\* set, and add_untrusted_ips returns the error with the Config as it was.
C7_ErrorLeavesConfig ==
    (calls > 0 /\ phase # "Parser" /\ ~TextDecodes(nics_json)) =>
        /\ ~parse_sdc_nics(nics_json).ok
        /\ parse_sdc_nics(nics_json).val = {}
        /\ result = "Err"
        /\ config = pre_config

\* a list with valid records and one bad `ip`, given to a Config that holds
\* untrusted addresses
C7_Witness ==
    /\ result = "Err"
    /\ nics_json = BadIpText
    /\ config.untrustedIPs.some
    /\ config.untrustedIPs.val # {}

C9_ClassifiedIsTerminal ==
    [][(phase = "Classified" /\ config.untrustedIPs.some) => config' = config]_vars

\* C10: add_untrusted_ips changes no field but untrustedIPs, whether it
\* returns Ok or Err.
C10_Frame ==
    /\ config.name = pre_config.name
    /\ config.trustedIP = pre_config.trustedIP
    /\ config.adminIPs = pre_config.adminIPs
    /\ config.mantaIPs = pre_config.mantaIPs
    /\ config.zookeeper = pre_config.zookeeper

\* a call that rewrote untrustedIPs of a Config holding admin and manta sets
C10_Witness ==
    /\ result = "Ok"
    /\ config.untrustedIPs # pre_config.untrustedIPs
    /\ config.adminIPs.some /\ config.adminIPs.val # {}
    /\ config.mantaIPs.some /\ config.mantaIPs.val # {}

====
